---- MODULE Spec2Model ----
(***************************************************************************)
(* Task dependency system: the tasks table, the task_dependencies table,   *)
(* circular dependency detection before a dependency is saved, and the     *)
(* status update that cascades to dependent tasks.                         *)
(***************************************************************************)
EXTENDS Integers, Sequences, FiniteSets, TLC

\* ------------------------------------------------------------------ bounds

\* Largest task id the AUTO_INCREMENT counter hands out.
MaxTasks == 3

\* Largest number of rows of task_dependencies.
MaxDeps == 3

\* Number of add-dependency requests that can be in progress at once.
MaxTxns == 2

\* Largest number of dependencies of the task a status is resolved for.
MaxDependencies == 3

\* Deepest nesting of update_status_based_on_dependencies calls followed.
MaxDepth == 5

\* Number of handlers of the frontend that can be running at once.
MaxHandlers == 2

\* ------------------------------------------------------------------ state

VARIABLES
    tasks,      \* ids of the rows of the tasks table
    nextId,     \* AUTO_INCREMENT counter of tasks.id
    status,     \* tasks.status, a function on tasks
    deps,       \* rows of task_dependencies in id order: <<task, depends_on>>
    response,   \* what the last request returned to its caller
    txns,       \* the add-dependency requests in progress, one per worker
    call,       \* the last application of a function on its own: arguments and result
    run,        \* the status cascade followed call by call: its stack of calls
    app         \* the state of the frontend's App and its handlers in progress

vars == <<tasks, nextId, status, deps, response, txns, call, run, app>>

\* What a request to the backend served one at a time leaves alone.
aside == <<txns, call, run, app>>

Workers == 1..MaxTxns

TaskIds == 1..MaxTasks

\* tasks.status ENUM
STATUS_CHOICES == {"pending", "in_progress", "completed", "blocked"}

\* Python's None, as returned by detect_cycle when there is no cycle; a
\* reported cycle is never empty.
None == <<>>

\* ------------------------------------------------------------------ graph model

\* Task.get_dependencies(): the tasks t depends on, in row order.
RECURSIVE get_dependencies_in(_, _)
get_dependencies_in(rows, t) ==
    IF rows = <<>> THEN <<>>
    ELSE IF Head(rows)[1] = t
         THEN <<Head(rows)[2]>> \o get_dependencies_in(Tail(rows), t)
         ELSE get_dependencies_in(Tail(rows), t)

get_dependencies(t) == get_dependencies_in(deps, t)

\* Task.get_dependents(): the tasks that depend on t, in row order.
RECURSIVE get_dependents_in(_, _)
get_dependents_in(rows, t) ==
    IF rows = <<>> THEN <<>>
    ELSE IF Head(rows)[2] = t
         THEN <<Head(rows)[1]>> \o get_dependents_in(Tail(rows), t)
         ELSE get_dependents_in(Tail(rows), t)

get_dependents(t) == get_dependents_in(deps, t)

Range(s) == {s[i] : i \in 1..Len(s)}

\* ------------------------------------------------------------------ cycle detector

\* The depth-first search behind detect_cycle: follows depends-on rows from
\* current, keeps the visited set and the path stack, and stops with the
\* stack holding the nodes from the start to target inclusive.
RECURSIVE dfs_has_path(_, _, _, _)
RECURSIVE dfs_each(_, _, _, _)
dfs_has_path(current, target, visited, path) ==
    LET v1 == visited \cup {current}
        p1 == Append(path, current)
    IN  IF current = target
        THEN [found |-> TRUE, visited |-> v1, path |-> p1]
        ELSE LET r == dfs_each(get_dependencies(current), target, v1, p1)
             IN  IF r.found THEN r
                 ELSE [found |-> FALSE, visited |-> r.visited, path |-> path]

dfs_each(ds, target, visited, path) ==
    IF ds = <<>> THEN [found |-> FALSE, visited |-> visited, path |-> path]
    ELSE IF Head(ds) \in visited THEN dfs_each(Tail(ds), target, visited, path)
    ELSE LET r == dfs_has_path(Head(ds), target, visited, path)
         IN  IF r.found THEN r
             ELSE dfs_each(Tail(ds), target, r.visited, path)

\* detect_cycle searching in the wrong direction: from the task for the
\* dependency.
detect_cycle_reversed(task_id, depends_on_id) ==
    LET r == dfs_has_path(task_id, depends_on_id, {}, <<>>)
    IN  IF r.found THEN Append(r.path, task_id) ELSE None

\* detect_cycle that looks only at the direct dependencies of depends_on_id.
detect_cycle_direct_only(task_id, depends_on_id) ==
    IF task_id = depends_on_id
    THEN <<depends_on_id, task_id>>
    ELSE IF task_id \in Range(get_dependencies(depends_on_id))
    THEN <<depends_on_id, task_id, task_id>>
    ELSE None

\* detect_cycle that does not start from an empty path: it goes on with
\* the list the search of the request before left behind.
detect_cycle_keeps_path(task_id, depends_on_id) ==
    LET r == dfs_has_path(depends_on_id, task_id, {}, response.path)
    IN  IF r.found THEN Append(r.path, task_id) ELSE None

\* detect_cycle that returns the search path without completing the cycle.
detect_cycle_no_append(task_id, depends_on_id) ==
    LET r == dfs_has_path(depends_on_id, task_id, {}, <<>>)
    IN  IF r.found THEN r.path ELSE None

\* detect_cycle(task_id, depends_on_id): the cycle path, or None.
detect_cycle(task_id, depends_on_id) ==
    LET r == dfs_has_path(depends_on_id, task_id, {}, <<>>)
    IN  IF r.found THEN Append(r.path, task_id) ELSE None

\* The nodes the search of detect_cycle has visited.
detect_cycle_visited(task_id, depends_on_id) ==
    dfs_has_path(depends_on_id, task_id, {}, <<>>).visited

\* The table without its unique key: no row ever collides.
unique_dependency_dropped(t, d) == FALSE

\* UNIQUE KEY unique_dependency (task_id, depends_on_id): would a new row
\* <<t, d>> collide with an existing one.
unique_dependency(t, d) == \E i \in 1..Len(deps) : deps[i] = <<t, d>>

\* ProposeEdge without the self-dependency check.
ProposeEdge_no_self_check(dependent, dependency) ==
    IF unique_dependency(dependent, dependency)
    THEN [kind |-> "DuplicateDependency", path |-> None, visited |-> {}]
    ELSE LET cycle == detect_cycle(dependent, dependency)
             seen == detect_cycle_visited(dependent, dependency)
         IN  IF cycle # None
             THEN [kind |-> "CircularDependency", path |-> cycle, visited |-> seen]
             ELSE [kind |-> "Accept", path |-> None, visited |-> seen]

\* ProposeEdge(dependent, dependency): the decision on one proposed edge.
ProposeEdge(dependent, dependency) ==
    IF dependent = dependency
    THEN [kind |-> "SelfDependency", path |-> None, visited |-> {}]
    ELSE IF unique_dependency(dependent, dependency)
    THEN [kind |-> "DuplicateDependency", path |-> None, visited |-> {}]
    ELSE LET cycle == detect_cycle(dependent, dependency)
             seen == detect_cycle_visited(dependent, dependency)
         IN  IF cycle # None
             THEN [kind |-> "CircularDependency", path |-> cycle, visited |-> seen]
             ELSE [kind |-> "Accept", path |-> None, visited |-> seen]

\* ------------------------------------------------------------------ status resolver

\* The resolver that blocks only when every dependency is blocked.
resolved_status_blocked_if_all(t, st) ==
    LET dependencies == get_dependencies(t)
    IN  IF \A i \in 1..Len(dependencies) : st[dependencies[i]] = "blocked"
        THEN "blocked"
        ELSE IF \A i \in 1..Len(dependencies) : st[dependencies[i]] = "completed"
        THEN "in_progress"
        ELSE st[t]

\* The resolver that looks at the first dependency only.
status_from_first_dependency(own, dependency_statuses) ==
    IF dependency_statuses # <<>> /\ Head(dependency_statuses) = "blocked"
    THEN "blocked"
    ELSE IF dependency_statuses = <<>> \/ Head(dependency_statuses) = "completed"
    THEN "in_progress"
    ELSE own

\* The status part of update_status_based_on_dependencies as a function of
\* the task's own status and the statuses of its dependencies, in the
\* order get_dependencies returns them.
status_from_dependencies(own, dependency_statuses) ==
    IF \E i \in 1..Len(dependency_statuses) : dependency_statuses[i] = "blocked"
    THEN "blocked"
    ELSE IF \A i \in 1..Len(dependency_statuses) :
                dependency_statuses[i] = "completed"
    THEN "in_progress"
    ELSE own

\* The status part of update_status_based_on_dependencies: the status task t
\* gets from the statuses st of its direct dependencies.
resolved_status(t, st) ==
    LET dependencies == get_dependencies(t)
    IN  IF \E i \in 1..Len(dependencies) : st[dependencies[i]] = "blocked"
        THEN "blocked"
        ELSE IF \A i \in 1..Len(dependencies) : st[dependencies[i]] = "completed"
        THEN "in_progress"
        ELSE st[t]

\* update_status_based_on_dependencies on task t: set the status, then
\* cascade to every dependent, which does the same in turn.
RECURSIVE update_status_based_on_dependencies(_, _)
RECURSIVE cascade_to_dependents(_, _)
\* The update that cascades to the dependents before it sets the status
\* of t, so that they read the old one.
update_status_cascade_first(t, st) ==
    LET st1 == cascade_to_dependents(get_dependents(t), st)
    IN  [st1 EXCEPT ![t] = resolved_status(t, st1)]

\* The update that sets the status of t and does not cascade.
update_status_no_cascade(t, st) ==
    [st EXCEPT ![t] = resolved_status(t, st)]

update_status_based_on_dependencies(t, st) ==
    cascade_to_dependents(get_dependents(t),
                          [st EXCEPT ![t] = resolved_status(t, st)])

cascade_to_dependents(dependents, st) ==
    IF dependents = <<>> THEN st
    ELSE cascade_to_dependents(Tail(dependents),
             update_status_based_on_dependencies(Head(dependents), st))

\* The status change after which every task is re-evaluated, dependent on
\* the node or not.
ApplyStatusChange_every_task(node, newStatus) ==
    LET st == [status EXCEPT ![node] = newStatus]
    IN  [t \in DOMAIN st |-> IF t = node THEN newStatus
                             ELSE resolved_status(t, st)]

\* ApplyStatusChange(node, newStatus): the statuses after node is given
\* newStatus and all its dependent tasks are re-evaluated.
ApplyStatusChange(node, newStatus) ==
    cascade_to_dependents(get_dependents(node),
                          [status EXCEPT ![node] = newStatus])

\* The same cascade with the rows of task_dependencies given: the order of
\* the rows is the order in which get_dependents yields the dependents.
RECURSIVE update_status_in(_, _, _)
RECURSIVE cascade_in(_, _, _)
update_status_in(rows, t, st) ==
    LET dependencies == get_dependencies_in(rows, t)
        own == status_from_dependencies(st[t],
                   [i \in 1..Len(dependencies) |-> st[dependencies[i]]])
    IN  cascade_in(rows, get_dependents_in(rows, t), [st EXCEPT ![t] = own])

cascade_in(rows, dependents, st) ==
    IF dependents = <<>> THEN st
    ELSE cascade_in(rows, Tail(dependents),
             update_status_in(rows, Head(dependents), st))

\* ApplyStatusChange on the rows given.
ApplyStatusChangeIn(rows, node, newStatus) ==
    cascade_in(rows, get_dependents_in(rows, node),
               [status EXCEPT ![node] = newStatus])

\* The tasks on which update_status_based_on_dependencies runs when it is
\* called on t, in call order: t, then the calls each dependent makes.
RECURSIVE resolutions_of(_)
RECURSIVE resolutions_each(_)
resolutions_of(t) == <<t>> \o resolutions_each(get_dependents(t))

resolutions_each(dependents) ==
    IF dependents = <<>> THEN <<>>
    ELSE resolutions_of(Head(dependents)) \o resolutions_each(Tail(dependents))

\* The resolutions one ApplyStatusChange(node, _) makes, in call order.
cascade_resolutions(node) == resolutions_each(get_dependents(node))

\* The mapping node -> new status of the nodes whose status differs.
StatusChanges_every_node(before, after) ==
    [m \in DOMAIN before |-> after[m]]

StatusChanges(before, after) ==
    [m \in {n \in DOMAIN before : after[n] # before[n]} |-> after[m]]

\* ------------------------------------------------------------------ requests

\* The JSON body of the answer to POST /api/dependencies/.  An error body
\* has the server's message and, for a circular dependency, the path.  The
\* sources do not give the text of the duplicate message; the kind stands
\* for it.
NoBody == [ok |-> TRUE, error |-> "", path |-> None]

ResponseBody(r) ==
    CASE r.kind = "Accept" -> NoBody
      [] r.kind = "CircularDependency" ->
             [ok |-> FALSE, error |-> "Circular dependency detected",
              path |-> r.path]
      [] r.kind = "SelfDependency" ->
             [ok |-> FALSE,
              error |-> "Cannot add a task as a dependency to itself",
              path |-> None]
      [] r.kind = "DuplicateDependency" ->
             [ok |-> FALSE, error |-> "DuplicateDependency", path |-> None]

\* What the frontend's handler returns to the component that asked.
NoResult == [success |-> TRUE, error |-> "", path |-> None]

\* handleAddDependency of App.jsx: apiCall throws the error body of a
\* response that is not ok, and the catch block recognises one message.
handleAddDependency(errorData) ==
    IF errorData.ok THEN NoResult
    ELSE IF errorData.error = "Circular dependency detected"
         THEN [success |-> FALSE, error |-> errorData.error,
               path |-> errorData.path]
         ELSE [success |-> FALSE, error |-> "Failed to add dependency",
               path |-> None]

\* The shape of every response; a request fills in what it returns.
NoResponse ==
    [op |-> "none", task |-> 0, other |-> 0, newStatus |-> "none",
     kind |-> "none", path |-> None, visited |-> {}, changes |-> <<>>,
     resolved |-> <<>>, body |-> NoBody, ui |-> NoResult]

\* GET /api/tasks/: every task with its status and the ids it depends on.
TasksView ==
    [t \in tasks |-> [status |-> status[t],
                      dependencies |-> get_dependencies(t)]]

\* GET /api/tasks/graph/: the nodes with their status and the edges.
GraphView == [nodes |-> [t \in tasks |-> status[t]], edges |-> deps]

Handlers == 1..MaxHandlers

\* A handler that is not running.
IdleHandler == [pc |-> "idle", request |-> <<>>, ok |-> TRUE, data |-> <<>>]

\* The App after its first load, no handler running: what it displays is
\* what the server has.
IdleApp ==
    [tasks |-> TasksView, graphData |-> GraphView, loading |-> FALSE,
     h |-> [k \in Handlers |-> IdleHandler]]

\* No cascade is being followed.
NoRun == [phase |-> "idle", origin |-> 0, newStatus |-> "none",
          before |-> <<>>, frames |-> <<>>]

\* No function has been applied on its own.
NoCall == [fn |-> "none"]

\* A worker that is processing no request.
Idle == [checked |-> FALSE, task |-> 0, depends_on |-> 0]

Init ==
    /\ tasks = {}
    /\ nextId = 1
    /\ status = <<>>
    /\ deps = <<>>
    /\ response = NoResponse
    /\ txns = [k \in Workers |-> Idle]
    /\ call = NoCall
    /\ run = NoRun
    /\ app = IdleApp

\* POST /api/tasks/: a new row with the next id and the supplied status
\* (DEFAULT 'pending').
CreateTask(s) ==
    /\ nextId <= MaxTasks
    /\ tasks' = tasks \cup {nextId}
    /\ nextId' = nextId + 1
    /\ status' = [t \in tasks \cup {nextId} |-> IF t = nextId THEN s ELSE status[t]]
    /\ deps' = deps
    /\ response' = [NoResponse EXCEPT !.op = "CreateTask", !.task = nextId,
                                      !.newStatus = s]
    /\ UNCHANGED aside

\* The rows that do not reference the task gone, in order.
RECURSIVE SelectRows(_, _)
SelectRows(rows, gone) ==
    IF rows = <<>> THEN <<>>
    ELSE IF Head(rows)[1] = gone \/ Head(rows)[2] = gone
         THEN SelectRows(Tail(rows), gone)
         ELSE <<Head(rows)>> \o SelectRows(Tail(rows), gone)

\* DELETE /api/tasks/{id}/: the row goes, and ON DELETE CASCADE removes
\* every task_dependencies row that references it.
DeleteTask(t) ==
    /\ t \in tasks
    /\ tasks' = tasks \ {t}
    /\ status' = [m \in tasks \ {t} |-> status[m]]
    /\ deps' = SelectRows(deps, t)
    /\ nextId' = nextId
    /\ response' = [NoResponse EXCEPT !.op = "DeleteTask", !.task = t]
    /\ UNCHANGED aside

\* The handler that saves the row before it checks it and does not take
\* it back on a rejection.
AddDependency_saves_first(t, d) ==
    /\ t \in tasks /\ d \in tasks
    /\ Len(deps) < MaxDeps
    /\ LET r == ProposeEdge(t, d)
       IN  /\ deps' = Append(deps, <<t, d>>)
           /\ response' = [NoResponse EXCEPT !.op = "AddDependency", !.task = t,
                              !.other = d, !.kind = r.kind, !.path = r.path,
                              !.visited = r.visited,
                              !.body = ResponseBody(r),
                              !.ui = handleAddDependency(ResponseBody(r))]
    /\ UNCHANGED <<tasks, nextId, status, aside>>

\* The handler that re-evaluates the status of the task on every request,
\* accepted or not.
AddDependency_updates_status(t, d) ==
    /\ t \in tasks /\ d \in tasks
    /\ LET r == ProposeEdge(t, d)
       IN  /\ r.kind = "Accept" => Len(deps) < MaxDeps
           /\ deps' = IF r.kind = "Accept" THEN Append(deps, <<t, d>>) ELSE deps
           /\ response' = [NoResponse EXCEPT !.op = "AddDependency", !.task = t,
                              !.other = d, !.kind = r.kind, !.path = r.path,
                              !.visited = r.visited,
                              !.body = ResponseBody(r),
                              !.ui = handleAddDependency(ResponseBody(r))]
    /\ status' = update_status_based_on_dependencies(t, status)
    /\ UNCHANGED <<tasks, nextId, aside>>

\* POST /api/dependencies/ {task, depends_on}: the dependency is checked
\* and saved only if the check accepts it.
AddDependency(t, d) ==
    /\ t \in tasks /\ d \in tasks
    /\ LET r == ProposeEdge(t, d)
       IN  /\ r.kind = "Accept" => Len(deps) < MaxDeps
           /\ deps' = IF r.kind = "Accept" THEN Append(deps, <<t, d>>) ELSE deps
           /\ response' = [NoResponse EXCEPT !.op = "AddDependency", !.task = t,
                              !.other = d, !.kind = r.kind, !.path = r.path,
                              !.visited = r.visited,
                              !.body = ResponseBody(r),
                              !.ui = handleAddDependency(ResponseBody(r))]
    /\ UNCHANGED <<tasks, nextId, status, aside>>

\* DELETE /api/dependencies/{id}/: the i-th row goes.
RemoveDependency(i) ==
    /\ i \in 1..Len(deps)
    /\ deps' = SubSeq(deps, 1, i - 1) \o SubSeq(deps, i + 1, Len(deps))
    /\ response' = [NoResponse EXCEPT !.op = "RemoveDependency",
                       !.task = deps[i][1], !.other = deps[i][2]]
    /\ UNCHANGED <<tasks, nextId, status, aside>>

\* PATCH /api/tasks/{id}/ {status}: the task gets the status and the
\* update cascades through the tasks that depend on it.
UpdateStatus(t, s) ==
    /\ t \in tasks
    /\ LET after == ApplyStatusChange(t, s)
       IN  /\ status' = after
           /\ response' = [NoResponse EXCEPT !.op = "UpdateStatus", !.task = t,
                              !.newStatus = s,
                              !.changes = StatusChanges(status, after),
                              !.resolved = cascade_resolutions(t)]
    /\ UNCHANGED <<tasks, nextId, deps, aside>>

Next ==
    \/ \E s \in STATUS_CHOICES : CreateTask(s)
    \/ \E t \in TaskIds : DeleteTask(t)
    \/ \E t, d \in TaskIds : AddDependency(t, d)
    \/ \E i \in 1..MaxDeps : RemoveDependency(i)
    \/ \E t \in TaskIds, s \in STATUS_CHOICES : UpdateStatus(t, s)

Spec == Init /\ [][Next]_vars

\* The dependency graph alone: tasks are created with the default status
\* and no status is changed.
NextGraph ==
    \/ CreateTask("pending")
    \/ \E t \in TaskIds : DeleteTask(t)
    \/ \E t, d \in TaskIds : AddDependency(t, d)
    \/ \E i \in 1..MaxDeps : RemoveDependency(i)

SpecGraph == Init /\ [][NextGraph]_vars

\* ------------------------------------------------------------------ the resolver on its own

\* The non-empty sequences over S of length at most n.
SeqsUpTo(S, n) == UNION {[1..k -> S] : k \in 1..n}

\* The status resolution applied to a status and a sequence of dependency
\* statuses.
Resolve(own, dependency_statuses) ==
    /\ call' = [fn |-> "resolve", own |-> own,
                dependency_statuses |-> dependency_statuses,
                result |-> status_from_dependencies(own, dependency_statuses)]
    /\ UNCHANGED <<tasks, nextId, status, deps, response, txns, run, app>>

NextResolver ==
    \E own \in STATUS_CHOICES,
       dependency_statuses \in SeqsUpTo(STATUS_CHOICES, MaxDependencies) :
        Resolve(own, dependency_statuses)

SpecResolver == Init /\ [][NextResolver]_vars

\* ------------------------------------------------------------------ the cascade call by call

\* The ordered pairs of distinct tasks.
AllRows == {r \in TaskIds \X TaskIds : r[1] # r[2]}

\* The tables of at most MaxDeps distinct rows, in every order: graphs
\* with and without cycles.
AllTables ==
    {rows \in UNION {[1..k -> AllRows] : k \in 0..MaxDeps} :
         \A i, j \in 1..Len(rows) : i # j => rows[i] # rows[j]}

\* A table that the cycle check has not guarded: all tasks exist and are
\* pending.
InitCascade ==
    /\ tasks = TaskIds
    /\ nextId = MaxTasks + 1
    /\ status = [t \in TaskIds |-> "pending"]
    /\ deps \in AllTables
    /\ response = NoResponse
    /\ txns = [k \in Workers |-> Idle]
    /\ call = NoCall
    /\ run = NoRun
    /\ app = IdleApp

\* The status rules and the first half of the loop over the dependents:
\* a frame is one call of update_status_based_on_dependencies, with the
\* dependents its loop still has to visit.
Frame(t) == [task |-> t, rest |-> get_dependents(t)]

\* The task gets its new status and the loop over its dependents begins.
StartCascade(node, newStatus) ==
    /\ run.phase = "idle"
    /\ node \in tasks
    /\ status' = [status EXCEPT ![node] = newStatus]
    /\ run' = [phase |-> "running", origin |-> node, newStatus |-> newStatus,
               before |-> status, frames |-> <<Frame(node)>>]
    /\ UNCHANGED <<tasks, nextId, deps, response, txns, call, app>>

\* The call on top of the stack with its loop advanced by one dependent.
Advanced(frames) ==
    [frames EXCEPT ![Len(frames)].rest = Tail(frames[Len(frames)].rest)]

\* The step that does not call a dependent whose call is still on the stack.
CascadeStep_skips_active ==
    /\ run.phase = "running"
    /\ LET top == run.frames[Len(run.frames)]
       IN  IF top.rest = <<>>
           THEN /\ run' = [run EXCEPT
                              !.frames = SubSeq(run.frames, 1, Len(run.frames) - 1),
                              !.phase = IF Len(run.frames) = 1 THEN "done"
                                        ELSE "running"]
                /\ status' = status
           ELSE LET t == Head(top.rest)
                IN  IF \E i \in 1..Len(run.frames) : run.frames[i].task = t
                    THEN /\ run' = [run EXCEPT !.frames = Advanced(run.frames)]
                         /\ status' = status
                    ELSE /\ Len(run.frames) < MaxDepth
                         /\ status' = [status EXCEPT
                                          ![t] = resolved_status(t, status)]
                         /\ run' = [run EXCEPT !.frames =
                                       Append(Advanced(run.frames), Frame(t))]
    /\ UNCHANGED <<tasks, nextId, deps, response, txns, call, app>>

\* One step of the cascade: the loop of the call on top of the stack is
\* over and the call returns, or it calls
\* update_status_based_on_dependencies on its next dependent, which sets
\* that task's status and starts its own loop.
CascadeStep ==
    /\ run.phase = "running"
    /\ LET top == run.frames[Len(run.frames)]
       IN  IF top.rest = <<>>
           THEN /\ run' = [run EXCEPT
                              !.frames = SubSeq(run.frames, 1, Len(run.frames) - 1),
                              !.phase = IF Len(run.frames) = 1 THEN "done"
                                        ELSE "running"]
                /\ status' = status
           ELSE LET t == Head(top.rest)
                IN  /\ Len(run.frames) < MaxDepth
                    /\ status' = [status EXCEPT
                                     ![t] = resolved_status(t, status)]
                    /\ run' = [run EXCEPT !.frames =
                                  Append(Advanced(run.frames), Frame(t))]
    /\ UNCHANGED <<tasks, nextId, deps, response, txns, call, app>>

NextCascade ==
    \/ \E node \in TaskIds, newStatus \in {"completed", "blocked"} :
           StartCascade(node, newStatus)
    \/ CascadeStep

SpecCascade == InitCascade /\ [][NextCascade]_vars

\* ------------------------------------------------------------------ the graph layout

\* graphData.edges has an edge {from, to} for a row <<from, to>>: from
\* depends on to.

\* edges.filter(edge => edge.to === nodeId).map(edge => edge.from)
RECURSIVE dependentsOf(_, _)
dependentsOf(edges, nodeId) ==
    IF edges = <<>> THEN <<>>
    ELSE IF Head(edges)[2] = nodeId
         THEN <<Head(edges)[1]>> \o dependentsOf(Tail(edges), nodeId)
         ELSE dependentsOf(Tail(edges), nodeId)

\* layers[layer].push(nodeId), with layers[layer] created when missing;
\* layer 0 is the first element.
pushToLayer(layers, layer, nodeId) ==
    IF layer + 1 <= Len(layers)
    THEN [layers EXCEPT ![layer + 1] = Append(@, nodeId)]
    ELSE Append(layers, <<nodeId>>)

\* calculateLayer(nodeId, layer) on the visited set and the layers so far.
RECURSIVE calculateLayer(_, _, _, _)
RECURSIVE calculateLayerEach(_, _, _, _)
calculateLayer(edges, nodeId, layer, acc) ==
    IF nodeId \in acc.visited THEN acc
    ELSE calculateLayerEach(edges, dependentsOf(edges, nodeId), layer + 1,
             [visited |-> acc.visited \cup {nodeId},
              layers |-> pushToLayer(acc.layers, layer, nodeId)])

\* dependents.forEach(depId => calculateLayer(depId, layer))
calculateLayerEach(edges, ids, layer, acc) ==
    IF ids = <<>> THEN acc
    ELSE calculateLayerEach(edges, Tail(ids), layer,
             calculateLayer(edges, Head(ids), layer, acc))

\* nodes.filter(node => !edges.some(edge => edge.from === node.id))
rootNodes(nodes, edges) ==
    LET IsRoot(n) == ~\E i \in 1..Len(edges) : edges[i][1] = n
    IN  SelectSeq(nodes, IsRoot)

\* The layers after the traversal from the roots, or from the first node
\* when there is no root.
layersFromRoots(nodes, edges) ==
    LET roots == rootNodes(nodes, edges)
        start == [visited |-> {}, layers |-> <<>>]
    IN  IF roots = <<>>
        THEN calculateLayer(edges, nodes[1], 0, start)
        ELSE calculateLayerEach(edges, roots, 0, start)

\* "Add any remaining nodes": the nodes not visited go to layer 0.
RECURSIVE addRemaining(_, _)
addRemaining(nodes, acc) ==
    IF nodes = <<>> THEN acc
    ELSE addRemaining(Tail(nodes),
             IF Head(nodes) \in acc.visited THEN acc
             ELSE [acc EXCEPT !.layers = pushToLayer(@, 0, Head(nodes))])

\* The position of each node of the layers: evenly spaced in its row, one
\* row per layer.
positionsOf(layers) ==
    LET horizontalSpacing == 200
        verticalSpacing == 100
        placed == {<<l, i>> : l \in 1..Len(layers), i \in 1..MaxTasks}
        at(n) == CHOOSE li \in placed :
                     li[2] <= Len(layers[li[1]]) /\ layers[li[1]][li[2]] = n
        startX(l) == (0 - (Len(layers[l]) * horizontalSpacing) \div 2)
                         + horizontalSpacing \div 2
    IN  [n \in UNION {Range(layers[l]) : l \in 1..Len(layers)} |->
            [x |-> startX(at(n)[1]) + (at(n)[2] - 1) * horizontalSpacing,
             y |-> (at(n)[1] - 1) * verticalSpacing]]

\* calculateNodePositions without the loop that adds the remaining nodes.
calculateNodePositions_without_remaining(nodes, edges) ==
    IF nodes = <<>> THEN [layers |-> <<>>, positions |-> <<>>]
    ELSE LET acc == layersFromRoots(nodes, edges)
         IN  [layers |-> acc.layers, positions |-> positionsOf(acc.layers)]

\* calculateNodePositions: the layers and the positions it sets.
calculateNodePositions(nodes, edges) ==
    IF nodes = <<>> THEN [layers |-> <<>>, positions |-> <<>>]
    ELSE LET acc == addRemaining(nodes, layersFromRoots(nodes, edges))
         IN  [layers |-> acc.layers, positions |-> positionsOf(acc.layers)]

\* The node lists: the tasks 1..n in every order.
AllNodeLists ==
    UNION {{p \in [1..n -> 1..n] : \A i, j \in 1..n : i # j => p[i] # p[j]} :
               n \in 0..MaxTasks}

\* The edge lists over the nodes given: at most MaxDeps distinct edges
\* between distinct nodes, with and without cycles.
EdgeListsOver(nodes) ==
    {rows \in AllTables :
         \A i \in 1..Len(rows) :
             rows[i][1] \in Range(nodes) /\ rows[i][2] \in Range(nodes)}

\* The graph component has been given graphData.
InitLayout ==
    /\ tasks = {}
    /\ nextId = 1
    /\ status = <<>>
    /\ deps = <<>>
    /\ response = NoResponse
    /\ txns = [k \in Workers |-> Idle]
    /\ run = NoRun
    /\ app = IdleApp
    /\ \E nodes \in AllNodeLists : \E edges \in EdgeListsOver(nodes) :
           call = [fn |-> "graphData", nodes |-> nodes, edges |-> edges]

\* useEffect on graphData: the component lays the graph out.
Layout ==
    /\ call.fn = "graphData"
    /\ call' = [fn |-> "layout", nodes |-> call.nodes, edges |-> call.edges,
                result |-> calculateNodePositions(call.nodes, call.edges)]
    /\ UNCHANGED <<tasks, nextId, status, deps, response, txns, run, app>>

NextLayout == Layout

SpecLayout == InitLayout /\ [][NextLayout]_vars

\* ------------------------------------------------------------------ the add-dependency form

\* The selector that offers every task.
availableDependencies_every_task(task) == tasks

\* availableDependencies of TaskItem for the task shown, with the task
\* list displayed equal to the tasks of the server and task.dependencies
\* the ids the task depends on.
availableDependencies(task) ==
    {t \in tasks : t # task /\ t \notin Range(get_dependencies(task))}

\* The user picks an option of the form of the task and presses Add: the
\* form calls onAddDependency(task.id, selectedDependency).
SelectAndAdd(task, selectedDependency) ==
    /\ task \in tasks
    /\ selectedDependency \in availableDependencies(task)
    /\ AddDependency(task, selectedDependency)

\* The graph as it is edited through the forms of the task list.
NextForm ==
    \/ CreateTask("pending")
    \/ \E t \in TaskIds : DeleteTask(t)
    \/ \E t, d \in TaskIds : SelectAndAdd(t, d)
    \/ \E i \in 1..MaxDeps : RemoveDependency(i)

SpecForm == Init /\ [][NextForm]_vars

\* ------------------------------------------------------------------ the handlers of the App

\* The App is open on three pending tasks without dependencies.
InitApp ==
    /\ tasks = TaskIds
    /\ nextId = MaxTasks + 1
    /\ status = [t \in TaskIds |-> "pending"]
    /\ deps = <<>>
    /\ response = NoResponse
    /\ txns = [k \in Workers |-> Idle]
    /\ call = NoCall
    /\ run = NoRun
    /\ app = IdleApp

\* The mutations the handlers send: handleUpdateTask with a status,
\* handleAddDependency, handleDeleteTask.
Requests ==
    [op : {"update"}, task : TaskIds, arg : {"completed", "blocked"}]
        \cup [op : {"addDependency"}, task : TaskIds, arg : TaskIds]
        \cup [op : {"delete"}, task : TaskIds, arg : {0}]

\* A handler is called: setLoading(true) and the mutation is sent.
Press(k, request) ==
    /\ app.h[k].pc = "idle"
    /\ app' = [app EXCEPT !.loading = TRUE,
                          !.h[k] = [IdleHandler EXCEPT !.pc = "mutation sent",
                                                       !.request = request]]
    /\ UNCHANGED <<tasks, nextId, status, deps, response, txns, call, run>>

\* The server serves the mutation of handler k; a request for a task that
\* is gone, or a dependency that is rejected, is answered with an error.
ServeMutation(k) ==
    /\ app.h[k].pc = "mutation sent"
    /\ LET r == app.h[k].request
           known == r.task \in tasks
                        /\ (r.op = "addDependency" => r.arg \in tasks)
           accepted == known /\ (r.op = "addDependency" =>
                                    /\ ProposeEdge(r.task, r.arg).kind = "Accept"
                                    /\ Len(deps) < MaxDeps)
       IN  /\ app' = [app EXCEPT !.h[k].pc = "mutation served",
                                 !.h[k].ok = accepted]
           /\ status' = IF ~accepted \/ r.op = "addDependency" THEN status
                         ELSE IF r.op = "update"
                              THEN ApplyStatusChange(r.task, r.arg)
                              ELSE [m \in tasks \ {r.task} |-> status[m]]
           /\ deps' = IF ~accepted \/ r.op = "update" THEN deps
                       ELSE IF r.op = "addDependency"
                            THEN Append(deps, <<r.task, r.arg>>)
                            ELSE SelectRows(deps, r.task)
           /\ tasks' = IF accepted /\ r.op = "delete" THEN tasks \ {r.task}
                        ELSE tasks
    /\ UNCHANGED <<nextId, response, txns, call, run>>

\* The answer to the mutation arrives.  After a success the handler calls
\* loadTasks: setLoading(true) and GET /api/tasks/ is sent.  After an
\* error it goes through catch and finally: setLoading(false).
AfterMutation(k) ==
    /\ app.h[k].pc = "mutation served"
    /\ app' = IF app.h[k].ok
               THEN [app EXCEPT !.loading = TRUE, !.h[k].pc = "tasks sent"]
               ELSE [app EXCEPT !.loading = FALSE, !.h[k].pc = "done"]
    /\ UNCHANGED <<tasks, nextId, status, deps, response, txns, call, run>>

\* The server serves GET /api/tasks/ of handler k.
ServeGetTasks(k) ==
    /\ app.h[k].pc = "tasks sent"
    /\ app' = [app EXCEPT !.h[k].pc = "tasks served", !.h[k].data = TasksView]
    /\ UNCHANGED <<tasks, nextId, status, deps, response, txns, call, run>>

\* The task list arrives: setTasks(data), and the finally block of
\* loadTasks does setLoading(false); the handler then calls loadGraphData
\* and GET /api/tasks/graph/ is sent.
AfterGetTasks(k) ==
    /\ app.h[k].pc = "tasks served"
    /\ app' = [app EXCEPT !.tasks = app.h[k].data, !.loading = FALSE,
                          !.h[k].pc = "graph sent", !.h[k].data = <<>>]
    /\ UNCHANGED <<tasks, nextId, status, deps, response, txns, call, run>>

\* The server serves GET /api/tasks/graph/ of handler k.
ServeGetGraph(k) ==
    /\ app.h[k].pc = "graph sent"
    /\ app' = [app EXCEPT !.h[k].pc = "graph served", !.h[k].data = GraphView]
    /\ UNCHANGED <<tasks, nextId, status, deps, response, txns, call, run>>

\* The graph data arrives: setGraphData(data); the handler ends with the
\* setLoading(false) of its finally block.
AfterGetGraph(k) ==
    /\ app.h[k].pc = "graph served"
    /\ app' = [app EXCEPT !.graphData = app.h[k].data, !.loading = FALSE,
                          !.h[k].pc = "done", !.h[k].data = <<>>]
    /\ UNCHANGED <<tasks, nextId, status, deps, response, txns, call, run>>

NextApp ==
    \/ \E k \in Handlers, request \in Requests : Press(k, request)
    \/ \E k \in Handlers : ServeMutation(k)
    \/ \E k \in Handlers : AfterMutation(k)
    \/ \E k \in Handlers : ServeGetTasks(k)
    \/ \E k \in Handlers : AfterGetTasks(k)
    \/ \E k \in Handlers : ServeGetGraph(k)
    \/ \E k \in Handlers : AfterGetGraph(k)

SpecApp == InitApp /\ [][NextApp]_vars

\* ------------------------------------------------------------------ the edge check on its own

\* ProposeEdge applied to the graph as it is, once the table is full and
\* the graph changes no more; the answer is kept to compare a later one
\* with.
Propose(t, d) ==
    /\ t \in tasks /\ d \in tasks
    /\ Len(deps) = MaxDeps
    /\ LET r == ProposeEdge(t, d)
       IN  call' = [fn |-> "propose", task |-> t, depends_on |-> d,
                    kind |-> r.kind, path |-> r.path]
    /\ UNCHANGED <<tasks, nextId, status, deps, response, txns, run, app>>

\* The graph is built, the edge check is applied, and tasks are completed
\* in between.
NextDeterminism ==
    \/ CreateTask("pending")
    \/ \E t, d \in TaskIds : AddDependency(t, d)
    \/ \E t \in TaskIds : UpdateStatus(t, "completed")
    \/ \E t, d \in TaskIds : Propose(t, d)

SpecDeterminism == Init /\ [][NextDeterminism]_vars

\* ------------------------------------------------------------------ concurrent requests

\* The rows a request in progress may still insert.
Pending == {k \in Workers : txns[k].checked}

\* POST /api/dependencies/ on worker k, first half: the request runs its
\* checks against the rows committed so far.  A rejected request is
\* answered at once; an accepted one goes on to save its row.
BeginAdd(k, t, d) ==
    /\ ~txns[k].checked
    /\ t \in tasks /\ d \in tasks
    /\ Len(deps) + Cardinality(Pending) < MaxDeps
    /\ LET r == ProposeEdge(t, d)
       IN  IF r.kind = "Accept"
           THEN /\ txns' = [txns EXCEPT ![k] = [checked |-> TRUE, task |-> t,
                                                depends_on |-> d]]
                /\ response' = response
           ELSE /\ txns' = txns
                /\ response' = [NoResponse EXCEPT !.op = "AddDependency",
                                   !.task = t, !.other = d, !.kind = r.kind,
                                   !.path = r.path, !.visited = r.visited]
    /\ UNCHANGED <<tasks, nextId, status, deps, call, run, app>>

\* POST /api/dependencies/ on worker k, second half: the transaction
\* inserts the row and commits.  The UNIQUE key is enforced by the
\* database against the rows committed by then; the cycle check is not
\* run again.
CommitAdd(k) ==
    /\ txns[k].checked
    /\ LET t == txns[k].task
           d == txns[k].depends_on
           collides == unique_dependency(t, d)
       IN  /\ deps' = IF collides THEN deps ELSE Append(deps, <<t, d>>)
           /\ response' = [NoResponse EXCEPT !.op = "AddDependency",
                              !.task = t, !.other = d,
                              !.kind = IF collides THEN "DuplicateDependency"
                                       ELSE "Accept"]
    /\ txns' = [txns EXCEPT ![k] = Idle]
    /\ UNCHANGED <<tasks, nextId, status, call, run, app>>

NextConcurrent ==
    \/ CreateTask("pending")
    \/ \E k \in Workers, t, d \in TaskIds : BeginAdd(k, t, d)
    \/ \E k \in Workers : CommitAdd(k)

SpecConcurrent == Init /\ [][NextConcurrent]_vars

\* ------------------------------------------------------------------ shape of the state

TypeOK ==
    /\ tasks \subseteq 1..(nextId - 1)
    /\ nextId \in 1..(MaxTasks + 1)
    /\ DOMAIN status = tasks
    /\ \A t \in tasks : status[t] \in STATUS_CHOICES
    /\ Len(deps) <= MaxDeps
    /\ \A i \in 1..Len(deps) : deps[i][1] \in tasks /\ deps[i][2] \in tasks
    /\ \A k \in Workers : txns[k].checked =>
           txns[k].task \in tasks /\ txns[k].depends_on \in tasks

\* ------------------------------------------------------------------ vocabulary of the properties

\* The edge set: the pairs <<dependent, dependency>> of the rows.
Edges == Range(deps)

\* The direct dependencies of n, as a set.
DependsOn(n) == {e[2] : e \in {x \in Edges : x[1] = n}}

\* The direct dependents of n, as a set.
DependentsOf(n) == {e[1] : e \in {x \in Edges : x[2] = n}}

\* The least set that contains S and is closed under depends-on edges.
RECURSIVE Closure(_)
Closure(S) ==
    LET N == S \cup UNION {DependsOn(n) : n \in S}
    IN  IF N = S THEN S ELSE Closure(N)

\* a reaches b by following one or more depends-on edges.
Reaches(a, b) == b \in Closure(DependsOn(a))

NoRepeats(p) == \A i, j \in 1..Len(p) : i # j => p[i] # p[j]

Proposed == response.op = "AddDependency"

\* ------------------------------------------------------------------ C1

\* C1: in every reachable state the edge set is a directed acyclic graph:
\* no node reaches itself by following one or more depends-on edges.
C1_EdgeSetIsDag == \A n \in tasks : ~Reaches(n, n)

\* An edge has just been accepted into a graph that chains all three tasks.
C1_Witness ==
    /\ Proposed /\ response.kind = "Accept"
    /\ \E a, b, c \in tasks : a # c /\ <<a, b>> \in Edges /\ <<b, c>> \in Edges

\* ------------------------------------------------------------------ C2

\* C2: ProposeEdge(u, v) accepts if and only if u # v, <<u, v>> is not an
\* edge, and u is not reachable from v along existing depends-on edges.
C2_AcceptIff ==
    \A u, v \in tasks :
        (ProposeEdge(u, v).kind = "Accept")
            <=> (u # v /\ <<u, v>> \notin Edges /\ ~Reaches(v, u))

\* An accepted edge between two nodes that were already ordered the same
\* way through a third one.
C2_Witness ==
    /\ Proposed /\ response.kind = "Accept"
    /\ \E w \in tasks : /\ <<response.task, w>> \in Edges
                        /\ <<w, response.other>> \in Edges

\* ------------------------------------------------------------------ C3

\* C3: ProposeEdge(u, u) is rejected as SelfDependency for every node in
\* every graph state, and no node is visited by a traversal for it.
C3_SelfRejectedWithoutTraversal ==
    /\ \A u \in tasks : LET r == ProposeEdge(u, u)
                        IN  r.kind = "SelfDependency" /\ r.visited = {}
    /\ (Proposed /\ response.task = response.other)
           => (response.kind = "SelfDependency" /\ response.visited = {})

\* A self-edge was proposed for a node that has a dependency, and rejected.
C3_Witness ==
    /\ Proposed /\ response.kind = "SelfDependency"
    /\ DependsOn(response.task) # {}

\* ------------------------------------------------------------------ C4

\* C4: proposing an edge that is present is rejected as
\* DuplicateDependency, and the rows hold each ordered pair at most once.
C4_DuplicateRejected ==
    /\ \A i \in 1..Len(deps) :
           ProposeEdge(deps[i][1], deps[i][2]).kind = "DuplicateDependency"
    /\ NoRepeats(deps)
    /\ (Proposed /\ response.kind = "DuplicateDependency")
           => <<response.task, response.other>> \in Edges

\* A present edge was proposed again and rejected as a duplicate.
C4_Witness ==
    /\ Proposed /\ response.kind = "DuplicateDependency"
    /\ Len(deps) >= 2

\* ------------------------------------------------------------------ C5

\* Every consecutive pair of p is the proposed edge <<u, v>> or an edge.
ClosedWalk(p, u, v) ==
    \A i \in 1..(Len(p) - 1) :
        <<p[i], p[i + 1]>> = <<u, v>> \/ <<p[i], p[i + 1]>> \in Edges

\* C5: the path of a CircularDependency rejection is a closed simple cycle
\* that starts and ends at the dependent: first and last element are the
\* dependent, the second is the dependency, consecutive pairs are the
\* proposed edge or existing edges, and no other node occurs twice.
C5_PathIsCycleFromDependent ==
    (Proposed /\ response.kind = "CircularDependency") =>
        LET p == response.path
            u == response.task
            v == response.other
        IN  /\ Len(p) >= 3
            /\ p[1] = u /\ p[Len(p)] = u /\ p[2] = v
            /\ ClosedWalk(p, u, v)
            /\ NoRepeats(SubSeq(p, 1, Len(p) - 1))

\* ------------------------------------------------------------------ C6

\* The path of a rejection of <<u, v>>: the nodes from v to u along
\* existing edges, each once, and then u a second time.
SearchPathThenDependent(p, u, v) ==
    /\ Len(p) >= 3
    /\ p[1] = v
    /\ p[Len(p) - 1] = u
    /\ p[Len(p)] = u
    /\ \A i \in 1..(Len(p) - 2) : <<p[i], p[i + 1]>> \in Edges
    /\ NoRepeats(SubSeq(p, 1, Len(p) - 1))

PROPOSE_OUTCOMES ==
    {"Accept", "SelfDependency", "DuplicateDependency", "CircularDependency"}

\* What a step that answers an edge proposal does: one outcome, a path
\* with CircularDependency and with nothing else, the edge saved whole
\* with Accept and not at all with a rejection.
C7_ProposalStep ==
    response'.op = "AddDependency" =>
        /\ response'.kind \in PROPOSE_OUTCOMES
        /\ (response'.kind = "CircularDependency") <=> (response'.path # None)
        /\ IF response'.kind = "Accept"
           THEN deps' = Append(deps, <<response'.task, response'.other>>)
           ELSE deps' = deps

\* C7: every call of ProposeEdge yields exactly one of Accept,
\* SelfDependency, DuplicateDependency and CircularDependency{path}, and
\* never a partially applied edge.
C7_ExactlyOneOutcome == [][C7_ProposalStep]_vars

\* Each of the four outcomes is returned in some call; this state is one
\* rejected circular proposal on a graph that holds two edges.
C7_Witness ==
    /\ Proposed /\ response.kind = "CircularDependency"
    /\ response.path # None
    /\ Len(deps) = 2

\* ------------------------------------------------------------------ C8

\* C8: a rejected ProposeEdge (self, duplicate or circular) leaves the edge
\* set, the node set and every node status as they were before the call.
C8_RejectionChangesNothing ==
    [][(response'.op = "AddDependency" /\ response'.kind # "Accept")
           => (tasks' = tasks /\ status' = status /\ deps' = deps)]_vars

\* A proposal was rejected on a graph with edges and statuses that differ.
C8_Witness ==
    /\ Proposed
    /\ response.kind \in {"SelfDependency", "DuplicateDependency", "CircularDependency"}
    /\ Len(deps) >= 1
    /\ \E a, b \in tasks : status[a] # status[b]

\* ------------------------------------------------------------------ C9

\* The resolver on a non-completed node with dependencies: one blocked
\* dependency gives blocked, whatever the other dependencies are.
C9_Resolver ==
    \A t \in tasks :
        (status[t] # "completed" /\ DependsOn(t) # {}) =>
            /\ (\E d \in DependsOn(t) : status[d] = "blocked")
                   => resolved_status(t, status) = "blocked"
            /\ \A d \in DependsOn(t) :
                   resolved_status(t, [status EXCEPT ![d] = "blocked"]) = "blocked"

\* A status change to blocked leaves every non-completed direct dependent
\* of the changed task blocked.
C9_Step ==
    (response'.op = "UpdateStatus" /\ response'.newStatus = "blocked") =>
        \A t \in DependentsOf(response'.task) :
            status[t] # "completed" => status'[t] = "blocked"

\* C9: for a non-completed node with at least one direct dependency, a
\* blocked direct dependency makes the resolved status blocked regardless
\* of the other dependencies, and changing one dependency to blocked makes
\* the node resolve to blocked.
C9_BlockedDependencyBlocks == []C9_Resolver /\ [][C9_Step]_vars

\* A dependency was changed to blocked and a dependent whose other
\* dependency is completed became blocked.
C9_Witness ==
    /\ response.op = "UpdateStatus" /\ response.newStatus = "blocked"
    /\ \E t \in DependentsOf(response.task) :
           /\ t \in DOMAIN response.changes
           /\ status[t] = "blocked"
           /\ \E x \in DependsOn(t) \ {response.task} : status[x] = "completed"

\* ------------------------------------------------------------------ C10

\* The resolver on a non-completed node whose dependencies are all
\* completed gives in_progress.
C10_Resolver ==
    \A t \in tasks :
        (/\ status[t] # "completed"
         /\ DependsOn(t) # {}
         /\ \A d \in DependsOn(t) : status[d] = "completed")
            => resolved_status(t, status) = "in_progress"

\* Completing the last non-completed dependency of a non-completed node
\* leaves the node in_progress, and in the returned mapping if that is new.
C10_Step ==
    (response'.op = "UpdateStatus" /\ response'.newStatus = "completed") =>
        \A t \in DependentsOf(response'.task) :
            (/\ status[t] # "completed"
             /\ status[response'.task] # "completed"
             /\ \A x \in DependsOn(t) \ {response'.task} : status[x] = "completed")
                => /\ status'[t] = "in_progress"
                   /\ status[t] # "in_progress"
                          => /\ t \in DOMAIN response'.changes
                             /\ response'.changes[t] = "in_progress"

\* C10: for a non-completed node with at least one direct dependency, if
\* every direct dependency is completed the resolved status is in_progress;
\* so after ApplyStatusChange(d, completed) on the last non-completed
\* dependency d of such a node, the node is in the result as in_progress.
C10_AllCompletedGivesInProgress == []C10_Resolver /\ [][C10_Step]_vars

\* ------------------------------------------------------------------ C11

\* C11: for a non-completed node with at least one direct dependency, if no
\* dependency is blocked and at least one is not completed, the resolved
\* status is pending, whatever the status of the node was before.
C11_IncompleteDependencyGivesPending ==
    \A t \in tasks :
        (/\ status[t] # "completed"
         /\ DependsOn(t) # {}
         /\ \A d \in DependsOn(t) : status[d] # "blocked"
         /\ \E d \in DependsOn(t) : status[d] # "completed")
            => resolved_status(t, status) = "pending"

\* ------------------------------------------------------------------ C12

\* C12: a node with zero direct dependencies is never changed by the
\* resolver or by a cascade: its status after a resolution is its status
\* before, and it is not set to in_progress because "all dependencies
\* completed" holds of no dependencies.
C12_NoDependenciesLeftUntouched ==
    \A t \in tasks :
        DependsOn(t) = {}
            => /\ resolved_status(t, status) = status[t]
               /\ update_status_based_on_dependencies(t, status)[t] = status[t]

\* ------------------------------------------------------------------ C13

\* C13: a completed node is never changed by derivation: after
\* ApplyStatusChange(n, s) every node m # n that was completed before the
\* call is still completed and is not in the returned mapping.
C13_CompletedIsNeverRevoked ==
    [][response'.op = "UpdateStatus" =>
           \A m \in tasks \ {response'.task} :
               status[m] = "completed"
                   => /\ status'[m] = "completed"
                      /\ m \notin DOMAIN response'.changes]_vars

\* ------------------------------------------------------------------ C14

\* The least set that contains S and is closed under dependents.
RECURSIVE DependentsClosure(_)
DependentsClosure(S) ==
    LET N == S \cup UNION {DependentsOf(n) : n \in S}
    IN  IF N = S THEN S ELSE DependentsClosure(N)

\* The nodes that depend on n directly or transitively.
TransitiveDependents(n) == DependentsClosure(DependentsOf(n))

\* C14: on an acyclic graph every ApplyStatusChange cascade terminates,
\* each node is resolved at most once in it, and the number of resolutions
\* is at most the number of nodes transitively dependent on the origin.
C14_EachNodeResolvedOnce ==
    response.op = "UpdateStatus" =>
        /\ NoRepeats(response.resolved)
        /\ Len(response.resolved)
               <= Cardinality(TransitiveDependents(response.task))

\* ------------------------------------------------------------------ C15

\* C15: after one ApplyStatusChange cascade, running the cascade again from
\* the same origin with the resulting statuses changes no status: its
\* mapping is empty.
C15_SecondPassChangesNothing ==
    response.op = "UpdateStatus" =>
        StatusChanges(status, ApplyStatusChange(response.task, response.newStatus))
            = <<>>

\* A cascade that changed the origin and two of its dependents.
C15_Witness ==
    /\ response.op = "UpdateStatus"
    /\ Cardinality(DOMAIN response.changes) = 3
    /\ Len(response.resolved) = 3

\* ------------------------------------------------------------------ C16

\* The Status Resolver of the four rules: untouched without dependencies,
\* blocked with a blocked dependency, in_progress with all dependencies
\* completed, pending otherwise.
FourRuleStatus(t, st) ==
    IF DependsOn(t) = {} THEN st[t]
    ELSE IF \E d \in DependsOn(t) : st[d] = "blocked" THEN "blocked"
    ELSE IF \A d \in DependsOn(t) : st[d] = "completed" THEN "in_progress"
    ELSE "pending"

\* C16: after an ApplyStatusChange(n, s) cascade every non-completed node
\* that transitively depends on n has the status the Status Resolver gives
\* on the final statuses of its direct dependencies; none is left with a
\* status computed from a dependency status that changed later on.
C16_DependentsAgreeWithResolver ==
    response.op = "UpdateStatus" =>
        \A t \in TransitiveDependents(response.task) :
            status[t] # "completed" => status[t] = FourRuleStatus(t, status)

\* The same with the branches the code has: a node to which neither the
\* blocked nor the in_progress rule applies has whatever status it had.
C16_DependentsAgreeWithCodeRules ==
    response.op = "UpdateStatus" =>
        \A t \in TransitiveDependents(response.task) :
            status[t] = resolved_status(t, status)

\* ------------------------------------------------------------------ C17

\* C17: the mapping an ApplyStatusChange returns holds exactly the nodes
\* whose status after the cascade differs from their status before the
\* call, each with its new status; an unchanged node is not in it.
C17_MappingIsExactlyTheChanges ==
    [][response'.op = "UpdateStatus" =>
           /\ DOMAIN response'.changes = {n \in tasks : status'[n] # status[n]}
           /\ \A n \in DOMAIN response'.changes :
                  response'.changes[n] = status'[n]]_vars

\* An origin was re-confirmed with the status it had and a dependent
\* changed: the mapping holds the dependent and not the origin.
C17_Witness ==
    /\ response.op = "UpdateStatus"
    /\ response.newStatus = "completed"
    /\ response.task \notin DOMAIN response.changes
    /\ \E t \in DependentsOf(response.task) :
           /\ t \in DOMAIN response.changes
           /\ response.changes[t] = "in_progress"

\* ------------------------------------------------------------------ C18

\* The nodes that depend on a node of S through a chain of nodes that are
\* not completed in st.
RECURSIVE NonCompletedChain(_, _)
NonCompletedChain(S, st) ==
    LET N == S \cup {x \in UNION {DependentsOf(n) : n \in S} :
                         st[x] # "completed"}
    IN  IF N = S THEN S ELSE NonCompletedChain(N, st)

\* C18: after ApplyStatusChange(n, blocked), n is blocked and so is every
\* node that depends on n, directly or transitively, through a chain of
\* non-completed nodes.
C18_BlockingReachesWholeChain ==
    [][(response'.op = "UpdateStatus" /\ response'.newStatus = "blocked") =>
           \A x \in NonCompletedChain({response'.task}, status) :
               status'[x] = "blocked"]_vars

\* Task 1 was set to blocked with 2 depending on 1 and 3 depending on 2,
\* and the mapping is {1: blocked, 2: blocked, 3: blocked}.
C18_Witness ==
    /\ response.op = "UpdateStatus"
    /\ response.task = 1
    /\ response.newStatus = "blocked"
    /\ Edges = {<<2, 1>>, <<3, 2>>}
    /\ DOMAIN response.changes = {1, 2, 3}
    /\ \A n \in 1..3 : response.changes[n] = "blocked"

\* ------------------------------------------------------------------ C19

\* C19: add-dependency requests processed concurrently, each running its
\* checks and then saving its row, leave the committed rows acyclic and
\* without a duplicate row.
C19_ConcurrentAddsKeepGraphConsistent ==
    /\ \A n \in tasks : ~Reaches(n, n)
    /\ NoRepeats(deps)

\* The half of it that the UNIQUE key carries: no row is committed twice.
C19_NoDuplicateRowCommitted == NoRepeats(deps)

\* ------------------------------------------------------------------ C20

\* C20: every rejection of an edge proposal reaches the issuer unchanged:
\* for SelfDependency, DuplicateDependency and CircularDependency alike
\* the result the frontend's add-dependency handler returns carries the
\* server's own error message, and for CircularDependency the full path.
C20_RejectionReachesIssuerUnchanged ==
    (Proposed /\ response.kind # "Accept") =>
        /\ ~response.ui.success
        /\ response.ui.error = response.body.error
        /\ response.ui.path = response.body.path

\* The part of it the handler does carry: a circular dependency arrives
\* with the server's message and the full path.
C20_CircularReachesIssuer ==
    (Proposed /\ response.kind = "CircularDependency") =>
        /\ ~response.ui.success
        /\ response.ui.error = response.body.error
        /\ response.ui.path = response.path

\* ------------------------------------------------------------------ C21

\* The sequence s rearranged by the permutation p of its indices.
Permuted(s, p) == [i \in 1..Len(s) |-> s[p[i]]]

\* C21: the status resolution is total and independent of order: for every
\* status of the node and every non-empty sequence of dependency statuses
\* it returns one status, and every permutation of the sequence gives the
\* same one.
C21_ResolverTotalAndOrderIndependent ==
    call.fn = "resolve" =>
        /\ call.result \in STATUS_CHOICES
        /\ \A p \in Permutations(1..Len(call.dependency_statuses)) :
               status_from_dependencies(call.own,
                   Permuted(call.dependency_statuses, p)) = call.result

\* A blocked dependency in last place, after a completed and a pending
\* one, decides the result.
C21_Witness ==
    /\ call.fn = "resolve"
    /\ call.own = "in_progress"
    /\ call.dependency_statuses = <<"completed", "pending", "blocked">>
    /\ call.result = "blocked"

\* The resolution on a task of the graph is the resolution on the sequence
\* of its dependencies' statuses.
C21_ResolverOnGraphAgrees ==
    \A t \in tasks :
        resolved_status(t, status) =
            status_from_dependencies(status[t],
                [i \in 1..Len(get_dependencies(t)) |->
                     status[get_dependencies(t)[i]]])

\* ------------------------------------------------------------------ C22

C23_SiblingOrderDoesNotMatter ==
    [][response'.op = "UpdateStatus" =>
           \A p \in Permutations(1..Len(deps)) :
               ApplyStatusChangeIn(Permuted(deps, p), response'.task,
                                   response'.newStatus) = status']_vars

\* The cascade on the rows given, taken in their own order, is the cascade
\* the request runs.
C23_CascadeOnRowsAgrees ==
    [][response'.op = "UpdateStatus" =>
           ApplyStatusChangeIn(deps, response'.task, response'.newStatus)
               = status']_vars

\* ------------------------------------------------------------------ C24

\* The tasks reached from n by following dependents, n's own included.
ReachedFrom(n) == DependentsClosure({n})

\* A cycle lies in the part of the graph the cascade from n goes through.
CycleReachableFrom(n) == \E m \in ReachedFrom(n) : Reaches(m, m)

\* C24: if the graph handed to the cascade has a cycle that is reachable
\* from the origin in the dependents direction, the cascade traversal does
\* not terminate: it never returns to its caller.
C24_CycleMeansNoTermination ==
    run.phase = "done" => ~CycleReachableFrom(run.origin)

\* The cascade from task 1 has gone round the cycle 2 -> 3 -> 2 until the
\* nesting of its calls is at the depth followed.
C24_Witness ==
    /\ run.phase = "running"
    /\ run.origin = 1
    /\ deps = <<<<2, 1>>, <<3, 2>>, <<2, 3>>>>
    /\ Len(run.frames) = MaxDepth
    /\ CycleReachableFrom(run.origin)

\* On a graph without such a cycle the cascade followed call by call ends
\* with the statuses ApplyStatusChange computes.
C24_StepwiseCascadeAgrees ==
    (run.phase = "done" /\ ~CycleReachableFrom(run.origin)) =>
        status = cascade_to_dependents(get_dependents(run.origin),
                     [run.before EXCEPT ![run.origin] = run.newStatus])

\* ------------------------------------------------------------------ C25

\* The least set that contains S and is closed under the edges of E.
RECURSIVE ClosureIn(_, _)
ClosureIn(E, S) ==
    LET N == S \cup {e[2] : e \in {x \in E : x[1] \in S}}
    IN  IF N = S THEN S ELSE ClosureIn(E, N)

\* The edge list has no cycle.
AcyclicList(edges) ==
    \A e \in Range(edges) : e[1] \notin ClosureIn(Range(edges), {e[2]})

\* The layer of node n in the layers, counted from 0.
LayerOf(layers, n) ==
    (CHOOSE l \in 1..Len(layers) : n \in Range(layers[l])) - 1

\* C25: the layout assigns layers by dependency depth: a node without
\* dependencies is in layer 0 and a node with dependencies is in a layer
\* strictly greater than the layer of each task it depends on, for every
\* acyclic graph and every order of the edge list.
C25_LayersFollowDependencyDepth ==
    (call.fn = "layout" /\ AcyclicList(call.edges)) =>
        /\ \A i \in 1..Len(call.nodes) :
               (~\E e \in Range(call.edges) : e[1] = call.nodes[i])
                   => LayerOf(call.result.layers, call.nodes[i]) = 0
        /\ \A e \in Range(call.edges) :
               LayerOf(call.result.layers, e[1])
                   > LayerOf(call.result.layers, e[2])

\* The half of it that holds: a node without dependencies is in layer 0.
C25_RootsInLayerZero ==
    call.fn = "layout" =>
        \A i \in 1..Len(call.nodes) :
            (~\E e \in Range(call.edges) : e[1] = call.nodes[i])
                => LayerOf(call.result.layers, call.nodes[i]) = 0

\* ------------------------------------------------------------------ C29

\* The places <<layer, index>> of the layers at which node n stands.
PlacesOf(layers, n) ==
    {li \in (1..Len(layers)) \X (1..MaxTasks) :
         li[2] <= Len(layers[li[1]]) /\ layers[li[1]][li[2]] = n}

\* C29: calculateNodePositions terminates for every finite node and edge
\* list, also when the edges contain a cycle or leave no root node, and
\* assigns every node of graphData.nodes to exactly one layer and hence
\* exactly one position.
C29_LayoutPlacesEveryNodeOnce ==
    call.fn = "layout" =>
        /\ \A n \in Range(call.nodes) :
               Cardinality(PlacesOf(call.result.layers, n)) = 1
        /\ DOMAIN call.result.positions = Range(call.nodes)

\* The edges 1 -> 2, 2 -> 1, 3 -> 1 hold a cycle and leave no root; the
\* traversal started at the first node, 3, and the two nodes it did not
\* reach were added to layer 0.
C29_Witness ==
    /\ call.fn = "layout"
    /\ call.nodes = <<3, 1, 2>>
    /\ Range(call.edges) = {<<1, 2>>, <<2, 1>>, <<3, 1>>}
    /\ rootNodes(call.nodes, call.edges) = <<>>
    /\ ~AcyclicList(call.edges)
    /\ call.result.layers = <<<<3, 1, 2>>>>

\* ------------------------------------------------------------------ C26

\* C26: ApplyStatusChange(n, s) changes only the status of n and of nodes
\* that transitively depend on n: a node that is not n and has no
\* depends-on path to n keeps its status, and the node set and the edge
\* set are unchanged by the call.
C26_CascadeTouchesOnlyDependents ==
    [][response'.op = "UpdateStatus" =>
           /\ tasks' = tasks
           /\ deps' = deps
           /\ \A m \in tasks \ ({response'.task}
                                   \cup TransitiveDependents(response'.task)) :
                  status'[m] = status[m]]_vars

\* A status change that reached a dependent while a task the origin
\* depends on, blocked and without dependencies of its own, stood by.
C26_Witness ==
    /\ response.op = "UpdateStatus"
    /\ \E t \in TransitiveDependents(response.task) :
           t \in DOMAIN response.changes
    /\ \E m \in DependsOn(response.task) :
           /\ status[m] = "blocked"
           /\ DependsOn(m) = {}
           /\ m \notin TransitiveDependents(response.task)

\* ------------------------------------------------------------------ C27

\* The three rejection conditions as ProposeEdge tests them.
Rejects(check, t, d) ==
    CASE check = "SelfDependency" -> t = d
      [] check = "DuplicateDependency" -> unique_dependency(t, d)
      [] check = "CircularDependency" -> detect_cycle(t, d) # None

REJECTIONS == {"SelfDependency", "DuplicateDependency", "CircularDependency"}

\* The orders in which the three checks can be performed.
CheckOrders ==
    {o \in [1..3 -> REJECTIONS] : \A i, j \in 1..3 : i # j => o[i] # o[j]}

\* The outcome when the checks are performed in the order given: the first
\* one that rejects, or acceptance.
OutcomeInOrder(order, t, d) ==
    IF \E i \in 1..3 : Rejects(order[i], t, d)
    THEN order[CHOOSE i \in 1..3 :
                   /\ Rejects(order[i], t, d)
                   /\ \A j \in 1..(i - 1) : ~Rejects(order[j], t, d)]
    ELSE "Accept"

\* The position of a check in an order.
PlaceIn(order, check) == CHOOSE i \in 1..3 : order[i] = check

C28_FormNeverSelfNorDuplicate ==
    /\ \A t \in tasks :
           /\ t \notin availableDependencies(t)
           /\ availableDependencies(t) \cap DependsOn(t) = {}
    /\ Proposed => response.kind \notin {"SelfDependency", "DuplicateDependency"}

\* A proposal issued through the form of a task that already has a
\* dependency was rejected all the same, as circular.
C28_Witness ==
    /\ Proposed
    /\ response.kind = "CircularDependency"
    /\ DependsOn(response.task) # {}
    /\ response.other \in availableDependencies(response.task)

\* ------------------------------------------------------------------ C30

\* Every handler has been called and has finished.
AllHandlersDone == \A k \in Handlers : app.h[k].pc = "done"

\* C30: when two mutation handlers of the App overlap, the answers
\* arriving in any order, then once both have finished loading is false
\* and the displayed tasks and graphData both equal the server state
\* after both mutations: no stale answer overwrites a newer one.
C30_OverlappingHandlersEndConsistent ==
    AllHandlersDone =>
        /\ app.loading = FALSE
        /\ app.tasks = TasksView
        /\ app.graphData = GraphView

\* The part of it that holds: loading is false.
C30_LoadingFalseWhenDone == AllHandlersDone => app.loading = FALSE

====
